---- MODULE Spec2Model ----
(***************************************************************************)
(* SkySwitcher (src/main.py): the capture buffer (InputBuffer) and the    *)
(* trigger detection and replay engine (SkySwitcher.run, fix_last_word).   *)
(*                                                                         *)
(* Time is counted in ticks of half a second: DOUBLE_PRESS_DELAY (0.5 s)   *)
(* is 1 tick and TYPING_TIMEOUT (3.0 s) is 6 ticks.  The code reads the    *)
(* clock only through the comparisons `now - t < 0.5` and `now - t > 3.0`; *)
(* the grid reaches both sides and the boundary of each.                   *)
(***************************************************************************)
EXTENDS Integers, Sequences, FiniteSets, TLC

\* ------------------------------------------------------------ bounds
\* Longest buffer the model grows by typing from an empty buffer.
MaxLen == 2
\* The clock runs from StartTime to StartTime + Horizon.
Horizon == 7
\* Most entries the model lets the cap evict in one run.
MaxEvict == 2

\* ------------------------------------------------- program constants
DOUBLE_PRESS_DELAY == 1
TYPING_TIMEOUT == 6
BUFFER_CAP == 100

\* evdev event types and key codes (linux/input-event-codes.h)
EV_SYN == 0
EV_KEY == 1
KEY_ESC == 1
KEY_1 == 2
KEY_BACKSPACE == 14
KEY_A == 30
KEY_LEFTSHIFT == 42
KEY_SLASH == 53
KEY_RIGHTSHIFT == 54
KEY_SPACE == 57
KEY_LEFTMETA == 125

LAYOUT_SWITCH_COMBO == <<KEY_LEFTMETA, KEY_SPACE>>

\* self.trigger_btn
trigger_btn == KEY_RIGHTSHIFT

\* self.trackable_range = range(e.KEY_1, e.KEY_SLASH + 1)
trackable_range == KEY_1 .. KEY_SLASH

\* The key codes of KEY_MAP: the digit row with minus and equal (2..13), Q..P and
\* the braces (16..27), A..L with semicolon, apostrophe and grave (30..41),
\* backslash, Z..M, comma, dot and slash (43..53), space.
KEY_MAP ==
    (KEY_1 .. 13) \cup (16 .. 27) \cup (KEY_A .. 41) \cup (43 .. KEY_SLASH) \cup {KEY_SPACE}

VARIABLES
    buffer,            \* InputBuffer.buffer: sequence of <<code, shift>>
    last_key_time,     \* InputBuffer.last_key_time
    last_press_time,   \* SkySwitcher.last_press_time (0: none pending)
    trigger_released,  \* SkySwitcher.trigger_released
    shift_pressed,     \* SkySwitcher.shift_pressed
    clock,             \* what time.time() returns while the current event is handled
    event,             \* the event read_loop delivered most recently
    calls,             \* calls of fix_last_word made while handling `event`
    ui,                \* what the handler of `event` wrote to the virtual device
    running,           \* the for loop over read_loop() has not been left
    evictions,         \* how often add dropped the head of the buffer (line 153)
    dropped,           \* entries the time-based reset removed while handling `event`
    popped,            \* entries backspace popped while handling `event`
    tap,               \* the pending trigger tap, as the event stream shows it
    pair               \* what the trigger Down being handled found pending

vars == <<buffer, last_key_time, last_press_time, trigger_released,
          shift_pressed, clock, event, calls, ui, running, evictions,
          dropped, popped, tap, pair>>

\* time.time() at start-up is an epoch time: far beyond both thresholds.
StartTime == TYPING_TIMEOUT + 1
MaxTime == StartTime + Horizon

\* The steps by which the clock moves between two events: none, the double-press
\* window, and just over the typing timeout (the timeout itself is six windows).
Deltas == {0, DOUBLE_PRESS_DELAY, TYPING_TIMEOUT + 1}

\* The keys of the physical keyboard that the model presses, besides the trigger:
\* a letter, space, backspace, a key inside trackable_range that types nothing
\* (left shift) and one outside it (Esc).
OtherKeys == {KEY_A, KEY_SPACE, KEY_BACKSPACE, KEY_LEFTSHIFT, KEY_ESC}
\* Down events of all of them, auto-repeat of the letter and of left shift.
Presses == {<<k, 1>> : k \in OtherKeys} \cup {<<KEY_A, 2>>, <<KEY_LEFTSHIFT, 2>>}
\* Up events: the handler of a release does nothing but set the shift flag, so
\* the release of left shift stands for the releases of all of them.
Releases == {KEY_LEFTSHIFT}

KeyEvent(code, value) == [type |-> EV_KEY, code |-> code, value |-> value]
\* A synchronisation marker, which the loop ignores.
SynEvent == [type |-> EV_SYN, code |-> 0, value |-> 0]

\* ----------------------------------------------------- InputBuffer

\* Mutant of TimeReset: the reset already at a gap of exactly the timeout.
TimeResetAtTimeout(buf, lkt, t) ==
    IF (t - lkt) >= TYPING_TIMEOUT THEN <<>> ELSE buf

\* add, lines 136-139: the time-based reset.
TimeReset(buf, lkt, t) ==
    IF (t - lkt) > TYPING_TIMEOUT THEN <<>> ELSE buf

\* Mutant of PopLast: pop(0) for pop().
PopFirst(buf) ==
    IF buf # <<>> THEN Tail(buf) ELSE buf

\* add, lines 144-147: backspace pops the tail.
PopLast(buf) ==
    IF buf # <<>> THEN SubSeq(buf, 1, Len(buf) - 1) ELSE buf

\* add, line 150: the keys that are appended.
IsRegularKey(keycode) ==
    keycode = KEY_SPACE \/ keycode \in trackable_range

\* Mutant of AppendCapped: pop() for pop(0), which drops the key just appended.
AppendCappedDropNewest(buf, item) ==
    LET appended == Append(buf, item)
    IN  IF Len(appended) > BUFFER_CAP THEN SubSeq(appended, 1, Len(appended) - 1)
        ELSE appended

\* add, lines 151-153: append, then drop the head when over the cap.
AppendCapped(buf, item) ==
    LET appended == Append(buf, item)
    IN  IF Len(appended) > BUFFER_CAP THEN Tail(appended) ELSE appended

\* add, line 152: whether this call drops the head.
Evicts(buf, lkt, keycode, t) ==
    /\ keycode # KEY_BACKSPACE
    /\ IsRegularKey(keycode)
    /\ Len(TimeReset(buf, lkt, t)) + 1 > BUFFER_CAP

\* InputBuffer.add: the buffer it leaves.
add(buf, lkt, keycode, is_shifted, t) ==
    LET kept == TimeReset(buf, lkt, t)
    IN  IF keycode = KEY_BACKSPACE THEN PopLast(kept)
        ELSE IF IsRegularKey(keycode) THEN AppendCapped(kept, <<keycode, is_shifted>>)
        ELSE kept

\* InputBuffer.get_last_phrase, the loop over reversed(self.buffer).
RECURSIVE ScanBack(_, _, _, _)
ScanBack(buf, i, found_char, result) ==
    IF i = 0 THEN result
    ELSE LET item == buf[i]
         IN  IF item[1] = KEY_SPACE
             THEN IF found_char THEN result
                  ELSE ScanBack(buf, i - 1, found_char, <<item>> \o result)
             ELSE ScanBack(buf, i - 1, TRUE, <<item>> \o result)

get_last_phrase(buf) ==
    IF buf = <<>> THEN <<>> ELSE ScanBack(buf, Len(buf), FALSE, <<>>)

\* ------------------------------------------------------ output sink

\* self.ui.write(e.EV_KEY, code, value) and self.ui.syn()
Write(code, value) == <<EV_KEY, code, value>>
Syn == <<EV_SYN, 0, 0>>

RECURSIVE PressAll(_, _)
PressAll(keys, i) ==
    IF i > Len(keys) THEN <<>> ELSE <<Write(keys[i], 1)>> \o PressAll(keys, i + 1)

RECURSIVE ReleaseAllReversed(_, _)
ReleaseAllReversed(keys, i) ==
    IF i = 0 THEN <<>> ELSE <<Write(keys[i], 0)>> \o ReleaseAllReversed(keys, i - 1)

\* Mutant of send_combo: the chord pressed and never released.
send_combo_NoRelease(keys) ==
    PressAll(keys, 1) \o <<Syn>>

\* SkySwitcher.send_combo
send_combo(keys) ==
    PressAll(keys, 1) \o <<Syn>> \o ReleaseAllReversed(keys, Len(keys)) \o <<Syn>>

\* Mutant of ReplayOne: left shift stays down after a shifted key.
ReplayOne_ShiftKept(item) ==
    LET code == item[1]
        use_shift == item[2]
    IN  (IF use_shift THEN <<Write(KEY_LEFTSHIFT, 1), Syn>> ELSE <<>>)
        \o <<Write(code, 1), Syn, Write(code, 0), Syn>>

\* replay_keys, the body of its loop for one key.
ReplayOne(item) ==
    LET code == item[1]
        use_shift == item[2]
    IN  (IF use_shift THEN <<Write(KEY_LEFTSHIFT, 1), Syn>> ELSE <<>>)
        \o <<Write(code, 1), Syn, Write(code, 0), Syn>>
        \o (IF use_shift THEN <<Write(KEY_LEFTSHIFT, 0), Syn>> ELSE <<>>)

\* SkySwitcher.replay_keys
RECURSIVE replay_keys(_)
replay_keys(key_sequence) ==
    IF key_sequence = <<>> THEN <<>>
    ELSE ReplayOne(Head(key_sequence)) \o replay_keys(Tail(key_sequence))

\* fix_last_word, lines 245-250: one backspace press and release per key.
RECURSIVE Backspaces(_)
Backspaces(count) ==
    IF count = 0 THEN <<>>
    ELSE <<Write(KEY_BACKSPACE, 1), Syn, Write(KEY_BACKSPACE, 0), Syn>>
         \o Backspaces(count - 1)

\* Mutant of fix_last_word: the layout switch before the backspaces.
fix_last_word_SwitchFirst(buf) ==
    LET keys_to_replay == get_last_phrase(buf)
    IN  IF keys_to_replay = <<>> THEN <<>>
        ELSE send_combo(LAYOUT_SWITCH_COMBO)
             \o Backspaces(Len(keys_to_replay))
             \o replay_keys(keys_to_replay)

\* Mutant of fix_last_word: no early return on an empty word.
fix_last_word_NoEmptyCheck(buf) ==
    LET keys_to_replay == get_last_phrase(buf)
    IN  Backspaces(Len(keys_to_replay))
        \o send_combo(LAYOUT_SWITCH_COMBO)
        \o replay_keys(keys_to_replay)

\* SkySwitcher.fix_last_word: everything it sends to the virtual device.
fix_last_word(buf) ==
    LET keys_to_replay == get_last_phrase(buf)
    IN  IF keys_to_replay = <<>> THEN <<>>
        ELSE Backspaces(Len(keys_to_replay))
             \o send_combo(LAYOUT_SWITCH_COMBO)
             \o replay_keys(keys_to_replay)

\* The numbers of writes and flushes after which the model lets the next one
\* fail: the first backspace, the first chord key, the first replayed key, the
\* last flush.
FailPoints(buf) ==
    LET count == Len(get_last_phrase(buf))
        total == Len(fix_last_word(buf))
    IN  IF total = 0 THEN {}
        ELSE {0, Len(Backspaces(count)),
              Len(Backspaces(count)) + Len(send_combo(LAYOUT_SWITCH_COMBO)),
              total - 1}

\* ------------------------------------------------------- event loop

\* Mutant of ShiftAfter: the flag follows the left shift key alone.
ShiftAfterLeftOnly(ev) ==
    IF ev.code = KEY_LEFTSHIFT
    THEN ev.value = 1 \/ ev.value = 2
    ELSE shift_pressed

\* run, lines 270-271
ShiftAfter(ev) ==
    IF ev.code \in {KEY_LEFTSHIFT, KEY_RIGHTSHIFT}
    THEN ev.value = 1 \/ ev.value = 2
    ELSE shift_pressed

\* Mutant of Qualifies: the time window forgotten.
QualifiesReleasedOnly(t, lpt, released) ==
    released

\* Mutant of Qualifies: the clean release forgotten.
QualifiesNoRelease(t, lpt, released) ==
    t - lpt < DOUBLE_PRESS_DELAY

\* run, line 278
Qualifies(t, lpt, released) ==
    (t - lpt < DOUBLE_PRESS_DELAY) /\ released

\* Mutant of CancelPending: typing does not cancel the pending press.
CancelPendingNever(lpt) ==
    lpt

\* run, lines 291-292
CancelPending(lpt) ==
    IF lpt > 0 THEN 0 ELSE lpt

\* The buffers the model lets typing produce: short ones, and ones at the cap
\* or one entry below it.
InScope(buf) ==
    Len(buf) <= MaxLen \/ Len(buf) >= BUFFER_CAP - 1

\* read_loop delivers `ev` after the clock moved by dt.
Deliver(ev, dt) ==
    /\ running
    /\ clock + dt <= MaxTime
    /\ clock' = clock + dt
    /\ event' = ev

\* `tap` and `pair` are a history of the input alone.  tap is the pending tap: the
\* most recent trigger Down while it is less than the double-press window old
\* (time), whether its handler called fix_last_word (fired), whether a trigger Up
\* (up) and whether a Down or Repeat of another key (typed) came after it.  Once
\* the window has passed there is no pending tap.
NoTap ==
    [time |-> 0, fired |-> FALSE, up |-> FALSE, typed |-> FALSE]

\* The pending tap as an event at time t finds it.
Aged(t) ==
    IF tap.time > 0 /\ t - tap.time < DOUBLE_PRESS_DELAY THEN tap ELSE NoTap

\* pair is set while a trigger Down is handled: whether a pending tap was there
\* (near) and what it had seen.
NoPair ==
    [near |-> FALSE, up |-> FALSE, typed |-> FALSE, fired |-> FALSE]

PairAt(t) ==
    [near |-> Aged(t).time > 0, up |-> Aged(t).up, typed |-> Aged(t).typed,
     fired |-> Aged(t).fired]

\* The history after a trigger Down at time t.
TapDown(t, firedNow) ==
    /\ pair' = PairAt(t)
    /\ tap' = [time |-> t, fired |-> firedNow, up |-> FALSE, typed |-> FALSE]

\* The history after a trigger Up.
TapUp(t) ==
    /\ pair' = NoPair
    /\ tap' = IF Aged(t).time > 0 THEN [Aged(t) EXCEPT !.up = TRUE] ELSE NoTap

\* The history after a Down or Repeat of another key.
TapTyped(t) ==
    /\ pair' = NoPair
    /\ tap' = IF Aged(t).time > 0 THEN [Aged(t) EXCEPT !.typed = TRUE] ELSE NoTap

\* The history after any other event.
TapKept(t) ==
    /\ pair' = NoPair
    /\ tap' = Aged(t)

\* A handler that does not call InputBuffer.add.
NoRecord ==
    /\ dropped' = 0
    /\ popped' = 0
    /\ UNCHANGED <<buffer, last_key_time, evictions>>

Init ==
    /\ buffer = <<>>
    /\ last_key_time = 0
    /\ last_press_time = 0
    /\ trigger_released = TRUE
    /\ shift_pressed = FALSE
    /\ clock = StartTime
    /\ event = SynEvent
    /\ calls = 0
    /\ ui = <<>>
    /\ running = TRUE
    /\ evictions = 0
    /\ dropped = 0
    /\ popped = 0
    /\ tap = NoTap
    /\ pair = NoPair

\* A buffer of n entries as typing leaves it: words of two letters, the second
\* one typed with shift held, with a space after each.
Fill(n) ==
    [i \in 1 .. n |-> <<IF i % 3 = 0 THEN KEY_SPACE ELSE KEY_A, i % 3 = 2>>]

\* The loop after a typing session that has filled the buffer to the cap or to
\* one entry below it.  The last key was recorded just now, and the session goes
\* on: the clock stops one double-press window later, before the typing timeout
\* can pass.
InitCap ==
    /\ buffer \in {Fill(BUFFER_CAP - 1), Fill(BUFFER_CAP)}
    /\ last_key_time = MaxTime - DOUBLE_PRESS_DELAY
    /\ last_press_time = 0
    /\ trigger_released = TRUE
    /\ shift_pressed = FALSE
    /\ clock = MaxTime - DOUBLE_PRESS_DELAY
    /\ event = KeyEvent(KEY_LEFTSHIFT, 0)
    /\ calls = 0
    /\ ui = <<>>
    /\ running = TRUE
    /\ evictions = 0
    /\ dropped = 0
    /\ popped = 0
    /\ tap = NoTap
    /\ pair = NoPair

\* run, line 268: an event that is not a key event.
NonKeyEvent ==
    \E dt \in Deltas :
        /\ Deliver(SynEvent, dt)
        /\ calls' = 0
        /\ ui' = <<>>
        /\ NoRecord
        /\ TapKept(clock')
        /\ UNCHANGED <<last_press_time, trigger_released, shift_pressed, running>>

\* run, lines 273-275: the trigger key goes up.
TriggerUp ==
    \E dt \in Deltas :
        /\ Deliver(KeyEvent(trigger_btn, 0), dt)
        /\ shift_pressed' = ShiftAfter(event')
        /\ trigger_released' = TRUE
        /\ calls' = 0
        /\ ui' = <<>>
        /\ TapUp(clock')
        /\ NoRecord
        /\ UNCHANGED <<last_press_time, running>>

\* Mutant of TriggerFire: the correction consumes the buffer.
TriggerFireClearing ==
    \E dt \in Deltas :
        /\ Deliver(KeyEvent(trigger_btn, 1), dt)
        /\ Qualifies(clock', last_press_time, trigger_released)
        /\ shift_pressed' = ShiftAfter(event')
        /\ calls' = 1
        /\ ui' = fix_last_word(buffer)
        /\ buffer' = <<>>
        /\ last_press_time' = 0
        /\ trigger_released' = FALSE
        /\ TapDown(clock', TRUE)
        /\ dropped' = 0
        /\ popped' = 0
        /\ UNCHANGED <<last_key_time, evictions, running>>

\* run, lines 276-281: the second tap; every write succeeds.
TriggerFire ==
    \E dt \in Deltas :
        /\ Deliver(KeyEvent(trigger_btn, 1), dt)
        /\ Qualifies(clock', last_press_time, trigger_released)
        /\ shift_pressed' = ShiftAfter(event')
        /\ calls' = 1
        /\ ui' = fix_last_word(buffer)
        /\ last_press_time' = 0
        /\ trigger_released' = FALSE
        /\ TapDown(clock', TRUE)
        /\ NoRecord
        /\ UNCHANGED running

\* run, lines 276-279 and 296-297: a write or flush of the correction raises
\* OSError after n of them went through; the exception leaves the loop.
TriggerFireSinkFailure ==
    \E dt \in Deltas :
        /\ Deliver(KeyEvent(trigger_btn, 1), dt)
        /\ Qualifies(clock', last_press_time, trigger_released)
        /\ shift_pressed' = ShiftAfter(event')
        /\ calls' = 1
        /\ \E n \in FailPoints(buffer) :
               ui' = SubSeq(fix_last_word(buffer), 1, n)
        /\ running' = FALSE
        /\ TapDown(clock', TRUE)
        /\ NoRecord
        /\ UNCHANGED <<last_press_time, trigger_released>>

\* Mutant of TriggerArm: the press is not stamped.
TriggerArmNoStamp ==
    \E dt \in Deltas :
        /\ Deliver(KeyEvent(trigger_btn, 1), dt)
        /\ ~Qualifies(clock', last_press_time, trigger_released)
        /\ shift_pressed' = ShiftAfter(event')
        /\ trigger_released' = FALSE
        /\ calls' = 0
        /\ ui' = <<>>
        /\ TapDown(clock', FALSE)
        /\ NoRecord
        /\ UNCHANGED <<last_press_time, running>>

\* run, lines 282-284: a trigger press that is not a second tap.
TriggerArm ==
    \E dt \in Deltas :
        /\ Deliver(KeyEvent(trigger_btn, 1), dt)
        /\ ~Qualifies(clock', last_press_time, trigger_released)
        /\ shift_pressed' = ShiftAfter(event')
        /\ last_press_time' = clock'
        /\ trigger_released' = FALSE
        /\ calls' = 0
        /\ ui' = <<>>
        /\ TapDown(clock', FALSE)
        /\ NoRecord
        /\ UNCHANGED running

\* run, lines 273-276: auto-repeat of the held trigger key (value 2).
TriggerRepeat ==
    \E dt \in Deltas :
        /\ Deliver(KeyEvent(trigger_btn, 2), dt)
        /\ shift_pressed' = ShiftAfter(event')
        /\ calls' = 0
        /\ ui' = <<>>
        /\ NoRecord
        /\ TapKept(clock')
        /\ UNCHANGED <<last_press_time, trigger_released, running>>

\* run, lines 286-292: another key goes down or repeats.
KeyPress ==
    \E dt \in Deltas, press \in Presses :
        /\ Deliver(KeyEvent(press[1], press[2]), dt)
        /\ shift_pressed' = ShiftAfter(event')
        /\ buffer' = add(buffer, last_key_time, press[1], shift_pressed', clock')
        /\ InScope(buffer')
        /\ evictions' = evictions
                         + (IF Evicts(buffer, last_key_time, press[1], clock') THEN 1 ELSE 0)
        /\ evictions' <= MaxEvict
        /\ dropped' = Len(buffer) - Len(TimeReset(buffer, last_key_time, clock'))
        /\ popped' = IF press[1] = KEY_BACKSPACE
                     THEN Len(TimeReset(buffer, last_key_time, clock')) - Len(buffer')
                     ELSE 0
        /\ last_key_time' = clock'
        /\ last_press_time' = CancelPending(last_press_time)
        /\ calls' = 0
        /\ ui' = <<>>
        /\ TapTyped(clock')
        /\ UNCHANGED <<trigger_released, running>>

\* run, line 287: another key goes up; only the shift flag can change.
KeyRelease ==
    \E dt \in Deltas, code \in Releases :
        /\ Deliver(KeyEvent(code, 0), dt)
        /\ shift_pressed' = ShiftAfter(event')
        /\ calls' = 0
        /\ ui' = <<>>
        /\ NoRecord
        /\ TapKept(clock')
        /\ UNCHANGED <<last_press_time, trigger_released, running>>

Next ==
    \/ NonKeyEvent
    \/ TriggerUp
    \/ TriggerFire
    \/ TriggerFireSinkFailure
    \/ TriggerArm
    \/ TriggerRepeat
    \/ KeyPress
    \/ KeyRelease

Spec == Init /\ [][Next]_vars

\* The same loop, started on a full buffer.
SpecCap == InitCap /\ [][Next]_vars

\* ------------------------------------------------------------ claims

IsTriggerDown ==
    event.type = EV_KEY /\ event.code = trigger_btn /\ event.value = 1

\* A Down or Repeat of a key other than the trigger: the events given to add.
IsRecord(ev) ==
    ev.type = EV_KEY /\ ev.code # trigger_btn /\ ev.value \in {1, 2}

KeyWrites(out) == SelectSeq(out, LAMBDA w : w[1] = EV_KEY)

IsPrefix(a, b) == Len(a) <= Len(b) /\ a = SubSeq(b, 1, Len(a))

\* C1: of two trigger Downs less than DOUBLE_PRESS_DELAY apart, with a trigger Up
\* and no Down or Repeat of another key between them, exactly one calls
\* fix_last_word: the second fires when the first did not, and a Down right after
\* a firing one does not fire (it is the first tap of the next pair).
C1_OneOfTwoTapsFires ==
    (IsTriggerDown /\ pair.near /\ pair.up /\ ~pair.typed)
        => ((calls = 1) # pair.fired)

\* The third rapid tap: it follows a firing tap inside the window and stays silent.
C1_ThirdTapSilent ==
    /\ IsTriggerDown /\ pair.near /\ pair.up /\ ~pair.typed
    /\ pair.fired /\ calls = 0 /\ last_press_time = clock

\* C2: a trigger Down that finds a pending tap after which another key went Down
\* or Repeat fires no correction, however short the gaps.
C2_TypingCancelsPendingTap ==
    (IsTriggerDown /\ pair.near /\ pair.typed) => calls = 0

\* Trigger Down, Up, letter a, trigger Down, all at one reading of the clock.
C2_TypedBetweenTaps ==
    /\ IsTriggerDown /\ pair.near /\ pair.up /\ pair.typed /\ ~pair.fired
    /\ buffer = <<<<KEY_A, FALSE>>>> /\ last_key_time = clock
    /\ calls = 0

\* C3: a trigger Down fires only if a trigger Up came after the trigger Down before
\* it; a trigger Repeat never fires and leaves last_press_time alone; a trigger Up
\* leaves last_press_time alone.
C3_NoFireWithoutRelease ==
    [][ /\ (IsTriggerDown' /\ calls' = 1) => (pair'.near /\ pair'.up)
        /\ (event'.type = EV_KEY /\ event'.code = trigger_btn /\ event'.value \in {0, 2})
               => (calls' = 0 /\ ui' = <<>> /\ last_press_time' = last_press_time)
      ]_vars

\* The held key: a second Down inside the window with no Up before it.
C3_HeldKeyDown ==
    /\ IsTriggerDown /\ pair.near /\ ~pair.up /\ ~pair.typed /\ ~pair.fired
    /\ calls = 0

\* C4: a correction leaves the buffer as it was, so that replaying the buffer it
\* leaves sends what it has just sent.
C4_CorrectionKeepsBuffer ==
    [][ calls' = 1 => /\ buffer' = buffer
                      /\ running' => ui' = fix_last_word(buffer')
      ]_vars

C4_WordStillBuffered ==
    /\ calls = 1 /\ running
    /\ Len(buffer) = 2 /\ ui # <<>>

\* What C5 expects for the word `keys`: a backspace press and release per key, the
\* chord pressed in order and released in reverse order, the keys in buffer order
\* (a key recorded with shift inside a left-shift press and release).
RECURSIVE C5_Retype(_)
C5_Retype(keys) ==
    IF keys = <<>> THEN <<>>
    ELSE LET n == Len(keys)
             code == keys[n][1]
         IN  C5_Retype(SubSeq(keys, 1, n - 1))
             \o (IF keys[n][2]
                 THEN <<Write(KEY_LEFTSHIFT, 1), Write(code, 1), Write(code, 0),
                        Write(KEY_LEFTSHIFT, 0)>>
                 ELSE <<Write(code, 1), Write(code, 0)>>)

C5_Expected(keys) ==
    LET n == Len(keys)
        m == Len(LAYOUT_SWITCH_COMBO)
    IN  [i \in 1 .. 2 * n |-> Write(KEY_BACKSPACE, i % 2)]
        \o [i \in 1 .. 2 * m |->
               IF i <= m THEN Write(LAYOUT_SWITCH_COMBO[i], 1)
               ELSE Write(LAYOUT_SWITCH_COMBO[2 * m + 1 - i], 0)]
        \o C5_Retype(keys)

\* C5: the key events of a correction of a non-empty word are the backspaces, then
\* the chord, then the replay, and nothing else; a correction cut short by a write
\* failure has sent a prefix of them.
C5_EraseSwitchRetype ==
    (calls = 1 /\ get_last_phrase(buffer) # <<>>)
        => /\ IsPrefix(KeyWrites(ui), C5_Expected(get_last_phrase(buffer)))
           /\ running => KeyWrites(ui) = C5_Expected(get_last_phrase(buffer))

C5_TwoKeyWordReplayed ==
    /\ calls = 1 /\ running
    /\ buffer = <<<<KEY_A, TRUE>>, <<KEY_A, FALSE>>>>
    /\ Len(KeyWrites(ui)) = 14

\* C6: a double-press that finds no word sends nothing, leaves the loop running and
\* resets the trigger state.
C6_EmptyWordSendsNothing ==
    (calls = 1 /\ get_last_phrase(buffer) = <<>>)
        => /\ ui = <<>>
           /\ running
           /\ last_press_time = 0
           /\ trigger_released = FALSE

C6_FiredOnEmptyBuffer ==
    /\ IsTriggerDown /\ calls = 1 /\ pair.near /\ pair.up
    /\ buffer = <<>> /\ running

\* C7: the buffer never holds more than BUFFER_CAP entries; an append to a full
\* buffer drops the oldest entry and keeps the others in order, an append to a
\* buffer that is not full drops nothing.
C7_CapEvictsOldest ==
    [][ /\ Len(buffer') <= BUFFER_CAP
        /\ ( /\ IsRecord(event')
             /\ event'.code # KEY_BACKSPACE
             /\ IsRegularKey(event'.code)
             /\ clock' - last_key_time <= TYPING_TIMEOUT )
           => buffer' = (IF Len(buffer) = BUFFER_CAP THEN Tail(buffer) ELSE buffer)
                        \o <<<<event'.code, shift_pressed'>>>>
      ]_vars

C7_HeadEvicted ==
    /\ evictions = 1
    /\ Len(buffer) = BUFFER_CAP
    /\ SubSeq(buffer, 1, BUFFER_CAP - 1) = Tail(Fill(BUFFER_CAP))

\* C8: a record that comes more than TYPING_TIMEOUT after the record before it
\* finds the buffer emptied: a buffered key then is the only entry, and is the
\* last phrase.  A record that comes at most TYPING_TIMEOUT after the one before
\* it loses nothing to the timeout: the entries stay, but for the one that a
\* backspace pops or the cap evicts.
C8_TimeoutClearsHistory ==
    [][ IsRecord(event') =>
          LET gap == clock' - last_key_time
              code == event'.code
              item == <<code, shift_pressed'>>
              buffered == code # KEY_BACKSPACE /\ IsRegularKey(code)
          IN  /\ (gap > TYPING_TIMEOUT /\ buffered)
                    => (buffer' = <<item>> /\ get_last_phrase(buffer') = <<item>>)
              /\ (gap > TYPING_TIMEOUT /\ ~buffered) => buffer' = <<>>
              /\ (gap <= TYPING_TIMEOUT /\ code # KEY_BACKSPACE /\ Len(buffer) < BUFFER_CAP)
                    => IsPrefix(buffer, buffer')
              /\ (gap <= TYPING_TIMEOUT /\ code = KEY_BACKSPACE)
                    => Len(buffer') >= Len(buffer) - 1
      ]_vars

\* a, b, a pause longer than the timeout, c: the buffer is [c].
C8_TwoKeysTimedOut ==
    /\ IsRecord(event) /\ event.code = KEY_A
    /\ dropped = 2
    /\ buffer = <<<<KEY_A, FALSE>>>>

\* C9: no entry of the buffer is a backspace; a backspace inside a typing session
\* removes the last entry and nothing else, and leaves an empty buffer empty.
C9_BackspacePopsLast ==
    [][ /\ \A i \in 1 .. Len(buffer') : buffer'[i][1] # KEY_BACKSPACE
        /\ ( /\ IsRecord(event')
             /\ event'.code = KEY_BACKSPACE
             /\ clock' - last_key_time <= TYPING_TIMEOUT )
           => buffer' = [i \in 1 .. (IF Len(buffer) = 0 THEN 0 ELSE Len(buffer) - 1)
                           |-> buffer[i]]
      ]_vars

\* a, b, backspace in one session: one entry is left.
C9_SecondOfTwoPopped ==
    /\ IsRecord(event) /\ event.code = KEY_BACKSPACE
    /\ popped = 1 /\ dropped = 0
    /\ Len(buffer) = 1

\* C10: every entry of the buffer is a trackable key: a letter, a digit, a
\* punctuation key or space, the keys of KEY_MAP.
C10_OnlyTrackableKeys ==
    \A i \in 1 .. Len(buffer) : buffer[i][1] \in KEY_MAP

IsSuffix(a, b) ==
    Len(a) <= Len(b) /\ a = SubSeq(b, Len(b) - Len(a) + 1, Len(b))

IsSpace(item) == item[1] = KEY_SPACE

\* C11: the last phrase of a buffer that typing has filled is a suffix of the
\* buffer, does not start with a space and has no space between its first and its
\* last entry.
C11_WordIsSpaceFreeSuffix ==
    LET word == get_last_phrase(buffer)
    IN  /\ IsSuffix(word, buffer)
        /\ word # <<>> => ~IsSpace(word[1])
        /\ \A i \in 2 .. Len(word) - 1 : ~IsSpace(word[i])

\* C12: when the buffer ends in exactly one space, the last phrase is the run of
\* non-space entries just before that space, bounded on its left by a space or by
\* the start of the buffer; when the buffer holds nothing but spaces, the last
\* phrase is empty and a correction writes nothing.
C12_TrailingSpaceSkipped ==
    LET n == Len(buffer)
        word == get_last_phrase(buffer)
        start == n - Len(word)
    IN  /\ ( /\ n >= 1
             /\ IsSpace(buffer[n])
             /\ (n = 1 \/ ~IsSpace(buffer[n - 1])) )
           => /\ \A i \in 1 .. Len(word) : ~IsSpace(word[i])
              /\ Len(word) < n
              /\ word = SubSeq(buffer, start, n - 1)
              /\ start > 1 => IsSpace(buffer[start - 1])
        /\ (\A i \in 1 .. n : IsSpace(buffer[i]))
           => /\ word = <<>>
              /\ calls = 1 => ui = <<>>

\* C13: a correction that a write failure cut short leaves the event loop
\* running, so that the next input event is handled.
C13_LoopSurvivesWriteFailure ==
    (calls = 1 /\ ui # fix_last_word(buffer)) => running

\* C14: after the Down of Esc, a Reset-class key, the buffer is empty and no
\* trigger press is pending.
C14_ResetKeyClearsBuffer ==
    (IsRecord(event) /\ event.code = KEY_ESC /\ event.value = 1)
        => (buffer = <<>> /\ last_press_time = 0)

\* C15: the Down of a key that add does not buffer and that is no backspace (Esc)
\* leaves the buffer and last_key_time as they were, whatever the time since the
\* record before it.
C15_UntrackedKeyIsNoOp ==
    [][ (IsRecord(event') /\ event'.code = KEY_ESC)
            => (buffer' = buffer /\ last_key_time' = last_key_time)
      ]_vars

\* C16: a correction called more than TYPING_TIMEOUT after the last call of add
\* finds no word and writes nothing.
C16_DoublePressAfterPauseFindsNothing ==
    (calls = 1 /\ clock - last_key_time > TYPING_TIMEOUT)
        => (get_last_phrase(buffer) = <<>> /\ ui = <<>>)

\* The number of key events replay_keys is to send for the entries of `keys`
\* before entry k.
RECURSIVE C17_Offset(_, _)
C17_Offset(keys, k) ==
    IF k <= 1 THEN 0
    ELSE C17_Offset(keys, k - 1) + (IF keys[k - 1][2] THEN 4 ELSE 2)

\* Left shift presses less left shift releases among the key events `out`.
C17_ShiftDepth(out) ==
    Len(SelectSeq(out, LAMBDA w : w = Write(KEY_LEFTSHIFT, 1)))
        - Len(SelectSeq(out, LAMBDA w : w = Write(KEY_LEFTSHIFT, 0)))

\* C17: in the replay step of a correction that completes, a key recorded with
\* shift is sent as left shift press, key press, key release, left shift release,
\* a key recorded without shift as key press, key release; the replay sends
\* nothing else, and left shift is up when the events of each key begin.
C17_ShiftWrapsEachKey ==
    (calls = 1 /\ running /\ get_last_phrase(buffer) # <<>>)
        => LET keys == get_last_phrase(buffer)
               n == Len(keys)
               all == KeyWrites(ui)
               skip == 2 * n + 2 * Len(LAYOUT_SWITCH_COMBO)
               replayed == SubSeq(all, skip + 1, Len(all))
           IN  /\ Len(replayed) = C17_Offset(keys, n + 1)
               /\ \A k \in 1 .. n :
                    LET off == C17_Offset(keys, k)
                        code == keys[k][1]
                    IN  /\ C17_ShiftDepth(SubSeq(replayed, 1, off)) = 0
                        /\ IF keys[k][2]
                           THEN SubSeq(replayed, off + 1, off + 4)
                                    = <<Write(KEY_LEFTSHIFT, 1), Write(code, 1),
                                        Write(code, 0), Write(KEY_LEFTSHIFT, 0)>>
                           ELSE SubSeq(replayed, off + 1, off + 2)
                                    = <<Write(code, 1), Write(code, 0)>>

\* A shifted letter followed by an unshifted space, replayed in full.
C17_ShiftedThenUnshifted ==
    /\ calls = 1 /\ running
    /\ buffer = <<<<KEY_A, TRUE>>, <<KEY_SPACE, FALSE>>>>
    /\ ui[Len(ui) - 1] = Write(KEY_SPACE, 0)

\* What the event stream shows of a second tap: a trigger Down is pending inside
\* the window, it did not fire, a trigger Up came after it and no other key went
\* Down or Repeat since.
C18_SecondTap ==
    pair.near /\ ~pair.fired /\ pair.up /\ ~pair.typed

\* C18: a trigger Down that is not a second tap writes nothing and is stamped as
\* the pending press (last_press_time = now, no release seen yet); a trigger Down
\* that is the second tap of such a press calls the correction.
C18_UnqualifiedDownArms ==
    IsTriggerDown =>
        IF C18_SecondTap
        THEN calls = 1
        ELSE /\ calls = 0
             /\ ui = <<>>
             /\ last_press_time = clock
             /\ ~trigger_released
             /\ tap = [time |-> clock, fired |-> FALSE, up |-> FALSE, typed |-> FALSE]

\* A trigger Down a full window or more after start-up and after the last key
\* typed, with no tap pending inside the window: it fires nothing and is the new
\* first tap.
C18_LateDownIsFirstTap ==
    /\ IsTriggerDown /\ ~pair.near
    /\ trigger_released = FALSE /\ last_press_time = clock
    /\ clock >= StartTime + DOUBLE_PRESS_DELAY
    /\ buffer # <<>> /\ clock - last_key_time >= DOUBLE_PRESS_DELAY
    /\ calls = 0

\* The keys that a sequence of writes leaves pressed on the virtual device.
C19_Held(out) ==
    { out[i][2] : i \in { j \in 1 .. Len(out) :
                            /\ out[j] = Write(out[j][2], 1)
                            /\ \A l \in j + 1 .. Len(out) : out[l] # Write(out[j][2], 0) } }

\* C19: when a correction has completed, no key is left pressed on the virtual
\* device and the last release has been flushed; handlers that call no correction
\* write nothing.
C19_NoKeyLeftPressed ==
    /\ (calls = 1 /\ running)
          => (C19_Held(ui) = {} /\ (ui # <<>> => ui[Len(ui)] = Syn))
    /\ calls = 0 => ui = <<>>

\* A correction of two keys, the last one shifted, has completed.
C19_CorrectionReleasedAll ==
    /\ calls = 1 /\ running
    /\ Len(buffer) = 2 /\ buffer[2][2]
    /\ { w[2] : w \in { ui[i] : i \in 1 .. Len(ui) } \ {Syn} }
           = {KEY_BACKSPACE, KEY_LEFTMETA, KEY_SPACE, KEY_LEFTSHIFT,
              buffer[1][1], buffer[2][1]}

\* C20: shift_pressed is the value of the latest event of either shift key, true
\* for Down and Repeat and false for Up, and no other event changes it; a key that
\* add appends is stored with the flag as it is after its own event.
C20_ShiftFlagFollowsBothKeys ==
    [][ /\ shift_pressed' =
              IF event'.type = EV_KEY /\ event'.code \in {KEY_LEFTSHIFT, KEY_RIGHTSHIFT}
              THEN event'.value \in {1, 2}
              ELSE shift_pressed
        /\ ( /\ IsRecord(event')
             /\ event'.code # KEY_BACKSPACE
             /\ IsRegularKey(event'.code) )
           => buffer'[Len(buffer')] = <<event'.code, shift_pressed'>>
      ]_vars

\* The trigger key is held (its Down is pending, no Up yet) and the letter typed
\* after it is stored as shifted.
C20_LetterAfterTriggerDown ==
    /\ IsRecord(event) /\ event.code = KEY_A
    /\ tap.time > 0 /\ ~tap.up /\ tap.typed
    /\ shift_pressed
    /\ buffer # <<>> /\ buffer[Len(buffer)] = <<KEY_A, TRUE>>

====
